---- MODULE Spec2Model ----
(***************************************************************************)
(* Model of promptx's prompt toolkit (src/toolkits/prompt.py): the         *)
(* template renderer, the model invoker and the three file-mediated        *)
(* stages (architect, data-generator, builder) over a workspace directory. *)
(*                                                                         *)
(* Text is a sequence of one-character strings, so that str.replace and    *)
(* str.startswith are computed character by character as Python does.      *)
(***************************************************************************)
EXTENDS Integers, Sequences, FiniteSets, TLC

VARIABLES
    files,      \* the workspace: artifact name -> [exists, content]
    last,       \* observation of the last stage invocation (sequential runs)
    progress,   \* how far an in-order architect/data-generator/builder run got
    template,   \* renderer input: the loaded template ([messages |-> ...])
    kwargs,     \* renderer input: the keyword arguments, in call order
    rendered,   \* _render_messages' result
    submitted,  \* the lc_messages _call_llm hands to model.invoke
    phase,      \* position of the render/invoke run
    pc,         \* concurrent runs: each stage's position in its handler
    loc         \* concurrent runs: each stage's local variables

vars == <<files, last, progress, template, kwargs, rendered, submitted, phase, pc, loc>>

----------------------------------------------------------------------------
(* Text helpers: Python str operations on character sequences.             *)

\* The prefix test as it would be if it compared the whole text.
StartsWithWhole(s, p) == s = p

\* s.startswith(p)
StartsWith(s, p) ==
    /\ Len(p) <= Len(s)
    /\ SubSeq(s, 1, Len(p)) = p

\* sub in s
Contains(s, sub) ==
    \E i \in 1..(Len(s) - Len(sub) + 1) : SubSeq(s, i, i + Len(sub) - 1) = sub

\* str.replace as it would be if everything after the first occurrence were
\* dropped.
RECURSIVE ReplaceTruncating(_, _, _)
ReplaceTruncating(s, old, new) ==
    IF Len(s) < Len(old) THEN s
    ELSE IF SubSeq(s, 1, Len(old)) = old
         THEN new
         ELSE <<Head(s)>> \o ReplaceTruncating(Tail(s), old, new)

\* s.replace(old, new) for a non-empty old: leftmost, non-overlapping
\* occurrences, found in one left-to-right scan; the inserted text is not
\* scanned again.
RECURSIVE Replace(_, _, _)
Replace(s, old, new) ==
    IF Len(s) < Len(old) THEN s
    ELSE IF SubSeq(s, 1, Len(old)) = old
         THEN new \o Replace(SubSeq(s, Len(old) + 1, Len(s)), old, new)
         ELSE <<Head(s)>> \o Replace(Tail(s), old, new)

DigitChar == <<"0", "1", "2", "3", "4", "5", "6", "7", "8", "9">>

RECURSIVE Digits(_)
Digits(n) ==
    IF n < 10 THEN <<DigitChar[n + 1]>>
    ELSE Digits(n \div 10) \o <<DigitChar[(n % 10) + 1]>>

\* A Python value passed as a keyword argument: a str or an int.
StrVal(s) == [kind |-> "str", val |-> s]
IntVal(n) == [kind |-> "int", val |-> n]

\* str(value)
Str(value) ==
    IF value.kind = "str" THEN value.val
    ELSE IF value.val < 0 THEN <<"-">> \o Digits(0 - value.val)
    ELSE Digits(value.val)

----------------------------------------------------------------------------
(* PromptToolkit._render_messages                                          *)

\* f"{{{{{key}}}}}"
Placeholder(key) == <<"{", "{">> \o key \o <<"}", "}">>

\* The inner loop as it would be if it stopped after the first key.
RECURSIVE RenderContentFirstOnly(_, _)
RenderContentFirstOnly(content, kw) ==
    IF kw = <<>> THEN content
    ELSE Replace(content, Placeholder(kw[1].key), Str(kw[1].value))

\* The inner loop over kwargs.items(): one replace per key, in call order,
\* each applied to the result of the one before.
RECURSIVE RenderContent(_, _)
RenderContent(content, kw) ==
    IF kw = <<>> THEN content
    ELSE RenderContent(Replace(content, Placeholder(kw[1].key), Str(kw[1].value)),
                       Tail(kw))

RenderMessages(tmpl, kw) ==
    [i \in 1..Len(tmpl.messages) |->
        [role    |-> tmpl.messages[i].role,
         content |-> RenderContent(tmpl.messages[i].content, kw)]]

----------------------------------------------------------------------------
(* PromptToolkit._call_llm: the conversion to lc_messages                  *)

AssistantPrefix ==
    <<"(", "P", "r", "e", "v", "i", "o", "u", "s", " ", "a", "s", "s", "i", "s",
      "t", "a", "n", "t", " ", "r", "e", "s", "p", "o", "n", "s", "e", ")", ":", " ">>

SystemMessage(c) == [type |-> "SystemMessage", content |-> c]
HumanMessage(c)  == [type |-> "HumanMessage", content |-> c]
AIMessage(c)     == [type |-> "AIMessage", content |-> c]

\* The loop body as it would be if an assistant message kept its role.
ConvertAsAssistant(msg) ==
    IF msg.role = "system" THEN <<SystemMessage(msg.content)>>
    ELSE IF msg.role = "user" THEN <<HumanMessage(msg.content)>>
    ELSE IF msg.role = "assistant" THEN <<AIMessage(msg.content)>>
    ELSE <<>>

\* The loop body as it would be if it ended in an else branch that sent any
\* other role as a HumanMessage.
ConvertElseHuman(msg) ==
    IF msg.role = "system" THEN <<SystemMessage(msg.content)>>
    ELSE IF msg.role = "assistant"
         THEN <<HumanMessage(AssistantPrefix \o msg.content)>>
    ELSE <<HumanMessage(msg.content)>>

\* One pass of the loop body: what a message appends to lc_messages.
Convert(msg) ==
    IF msg.role = "system" THEN <<SystemMessage(msg.content)>>
    ELSE IF msg.role = "user" THEN <<HumanMessage(msg.content)>>
    ELSE IF msg.role = "assistant"
         THEN <<HumanMessage(AssistantPrefix \o msg.content)>>
    ELSE <<>>

RECURSIVE LcMessages(_)
LcMessages(messages) ==
    IF messages = <<>> THEN <<>>
    ELSE Convert(Head(messages)) \o LcMessages(Tail(messages))

----------------------------------------------------------------------------
(* FileBasedPromptToolkit: the workspace and its read/write helpers        *)

RequirementPath == "requirement.txt"
AnalysisPath    == "analysis.json"
TestDataPath    == "test_data.json"
FinalPromptPath == "final_prompt.json"

Artifacts == {RequirementPath, AnalysisPath, TestDataPath, FinalPromptPath}

\* The characters of a logical file name, for _read_file's message.
PathChars(p) ==
    CASE p = RequirementPath ->
           <<"r", "e", "q", "u", "i", "r", "e", "m", "e", "n", "t", ".", "t", "x", "t">>
      [] p = AnalysisPath ->
           <<"a", "n", "a", "l", "y", "s", "i", "s", ".", "j", "s", "o", "n">>
      [] p = TestDataPath ->
           <<"t", "e", "s", "t", "_", "d", "a", "t", "a", ".", "j", "s", "o", "n">>
      [] p = FinalPromptPath ->
           <<"f", "i", "n", "a", "l", "_", "p", "r", "o", "m", "p", "t", ".", "j", "s", "o", "n">>

Absent == [exists |-> FALSE, content |-> <<>>]
Present(c) == [exists |-> TRUE, content |-> c]

\* "Error:", the prefix every stage tests its input for
ErrorPrefix == <<"E", "r", "r", "o", "r", ":">>

\* _read_file as it would be if a missing file read as empty text
ReadFileEmptyOnMissing(fs, p) ==
    IF ~fs[p].exists THEN <<>> ELSE fs[p].content

\* _read_file: the file's text, or the text "Error: File '<path>' not found"
ReadFile(fs, p) ==
    IF ~fs[p].exists
    THEN <<"E", "r", "r", "o", "r", ":", " ", "F", "i", "l", "e", " ", "'">>
         \o PathChars(p)
         \o <<"'", " ", "n", "o", "t", " ", "f", "o", "u", "n", "d">>
    ELSE fs[p].content

\* _write_file as it would be if it resolved every path to requirement.txt
WriteFileWrongPath(fs, p, content) ==
    [fs EXCEPT !["requirement.txt"] = Present(content)]

\* _write_file: open(path, "w") and write: the content replaces the file's
WriteFile(fs, p, content) == [fs EXCEPT ![p] = Present(content)]

----------------------------------------------------------------------------
(* The stage templates (meta_prompts/<name>.yaml) and the stage arguments  *)

Kw(key, value) == [key |-> key, value |-> value]
Msg(role, content) == [role |-> role, content |-> content]

KeyRequirement   == <<"r", "e", "q", "u", "i", "r", "e", "m", "e", "n", "t">>
KeyAnalysis      == <<"a", "n", "a", "l", "y", "s", "i", "s">>
KeyTestData      == <<"t", "e", "s", "t", "_", "d", "a", "t", "a">>
KeyNum           == <<"n", "u", "m">>
KeyNotion        == <<"n", "o", "t", "i", "o", "n">>
KeyRequireOutput == <<"r", "e", "q", "u", "i", "r", "e", "_", "o", "u", "t", "p", "u", "t">>

\* prompt_architect.yaml: a system line, then the requirement as the user turn
ArchitectTemplate ==
    [messages |-> << Msg("system", <<"A">>),
                     Msg("user", Placeholder(KeyRequirement)) >>]

\* data_generator.yaml: the count, focus and output flag, then the analysis
DataGeneratorTemplate ==
    [messages |-> << Msg("system", Placeholder(KeyNum) \o <<" ">> \o Placeholder(KeyNotion)
                                   \o <<" ">> \o Placeholder(KeyRequireOutput)),
                     Msg("user", Placeholder(KeyAnalysis)) >>]

\* prompt_builder.yaml: an exemplar assistant turn, then analysis and test data
BuilderTemplate ==
    [messages |-> << Msg("system", <<"B">>),
                     Msg("assistant", <<"[", "]">>),
                     Msg("user", Placeholder(KeyAnalysis) \o <<"|">> \o Placeholder(KeyTestData)) >>]

\* notion's default, "Generate diverse test cases"
DefaultNotion ==
    <<"G", "e", "n", "e", "r", "a", "t", "e", " ", "d", "i", "v", "e", "r", "s", "e",
      " ", "t", "e", "s", "t", " ", "c", "a", "s", "e", "s">>

\* num's default
DefaultNum == 3

\* The values of num the caller passes.
Nums == {DefaultNum, 10}

----------------------------------------------------------------------------
(* Texts an artifact or a model response can hold                          *)

TxtPlain   == <<"a", "b">>
TxtEmpty   == <<>>
TxtError   == ErrorPrefix \o <<" ", "a">>
TxtNested  == Placeholder(KeyTestData)

Texts == {TxtPlain, TxtEmpty, TxtError, TxtNested}

\* model.invoke: a response with some text, or an exception
ModelOutcomes ==
    {[raised |-> FALSE, content |-> t] : t \in Texts}
        \cup {[raised |-> TRUE, content |-> <<>>]}

----------------------------------------------------------------------------
(* What a caller observes of one stage invocation                          *)

\* The returned status string: its kind, the path it names and, for the
\* data generator, the count it names.
Status(kind, path, num) == [kind |-> kind, path |-> path, num |-> num]
NoStatus == Status("none", "", 0)

EmptyWorkspace == [p \in Artifacts |-> Absent]

Observation(stage, pre, returned, raised, calls, sent, response) ==
    [stage |-> stage, pre |-> pre, returned |-> returned, raised |-> raised,
     calls |-> calls, sent |-> sent, response |-> response]

NoInvocation == Observation("none", EmptyWorkspace, NoStatus, FALSE, 0, <<>>, <<>>)

OnlyRequirement(fs) ==
    /\ fs[RequirementPath].exists
    /\ \A p \in Artifacts \ {RequirementPath} : ~fs[p].exists

\* Position of an in-order run: "start" is a workspace holding only
\* requirement.txt; each stage invoked in order without an exception advances.
ProgressAfter(stage, raised) ==
    IF raised THEN "off"
    ELSE IF stage = "architect" /\ progress = "start" THEN "architect"
    ELSE IF stage = "data_generator" /\ progress = "architect" THEN "data_generator"
    ELSE IF stage = "builder" /\ progress = "data_generator" THEN "builder"
    ELSE "off"

\* The rest of a stage as it would be if a failed model call were caught,
\* retried once and its error text saved as the artifact.
GenerateCatching(stage, tmpl, kw, outputPath, okStatus) ==
    LET messages == RenderMessages(tmpl, kw)
        lc       == LcMessages(messages)
    IN  \E out \in ModelOutcomes :
            IF out.raised
            THEN /\ files' = WriteFile(files, outputPath, ErrorPrefix)
                 /\ last' = Observation(stage, files, okStatus, TRUE, 2, lc, <<>>)
                 /\ progress' = ProgressAfter(stage, TRUE)
            ELSE /\ files' = WriteFile(files, outputPath, out.content)
                 /\ last' = Observation(stage, files, okStatus, FALSE, 1, lc, out.content)
                 /\ progress' = ProgressAfter(stage, FALSE)

\* The rest of a stage after its inputs were read: render, call the model
\* once, and write the response to the output path.
Generate(stage, tmpl, kw, outputPath, okStatus) ==
    LET messages == RenderMessages(tmpl, kw)
        lc       == LcMessages(messages)
    IN  \E out \in ModelOutcomes :
            IF out.raised
            THEN /\ files' = files
                 /\ last' = Observation(stage, files, NoStatus, TRUE, 1, lc, <<>>)
                 /\ progress' = ProgressAfter(stage, TRUE)
            ELSE /\ files' = WriteFile(files, outputPath, out.content)
                 /\ last' = Observation(stage, files, okStatus, FALSE, 1, lc, out.content)
                 /\ progress' = ProgressAfter(stage, FALSE)

\* The early return after a failed read.
ReturnError(stage, path) ==
    /\ files' = files
    /\ last' = Observation(stage, files, Status("error", path, 0), FALSE, 0, <<>>, <<>>)
    /\ progress' = ProgressAfter(stage, FALSE)

RenderVarsUnchanged == UNCHANGED <<template, kwargs, rendered, submitted, phase>>
ConcVarsUnchanged == UNCHANGED <<pc, loc>>

\* _prompt_architect_file_impl
PromptArchitectFile ==
    /\ LET requirement == ReadFile(files, RequirementPath)
       IN  IF StartsWith(requirement, ErrorPrefix)
           THEN ReturnError("architect", RequirementPath)
           ELSE Generate("architect", ArchitectTemplate,
                         <<Kw(KeyRequirement, StrVal(requirement))>>,
                         AnalysisPath, Status("ok", AnalysisPath, 0))
    /\ RenderVarsUnchanged
    /\ ConcVarsUnchanged

\* _data_generator_file_impl(num, notion)
DataGeneratorFile(num, notion) ==
    /\ LET analysis == ReadFile(files, AnalysisPath)
       IN  IF StartsWith(analysis, ErrorPrefix)
           THEN ReturnError("data_generator", AnalysisPath)
           ELSE Generate("data_generator", DataGeneratorTemplate,
                         << Kw(KeyNum, IntVal(num)),
                            Kw(KeyAnalysis, StrVal(analysis)),
                            Kw(KeyNotion, StrVal(notion)),
                            Kw(KeyRequireOutput, StrVal(<<"t", "r", "u", "e">>)) >>,
                         TestDataPath, Status("ok", TestDataPath, num))
    /\ RenderVarsUnchanged
    /\ ConcVarsUnchanged

\* _prompt_builder_file_impl
PromptBuilderFile ==
    /\ LET analysis == ReadFile(files, AnalysisPath)
           test_data == ReadFile(files, TestDataPath)
       IN  IF StartsWith(analysis, ErrorPrefix)
           THEN ReturnError("builder", AnalysisPath)
           ELSE IF StartsWith(test_data, ErrorPrefix)
           THEN ReturnError("builder", TestDataPath)
           ELSE Generate("builder", BuilderTemplate,
                         << Kw(KeyAnalysis, StrVal(analysis)),
                            Kw(KeyTestData, StrVal(test_data)) >>,
                         FinalPromptPath, Status("ok", FinalPromptPath, 0))
    /\ RenderVarsUnchanged
    /\ ConcVarsUnchanged

\* A human operator writes an artifact between stage invocations.
OperatorWrite(p, c) ==
    /\ files' = WriteFile(files, p, c)
    /\ last' = NoInvocation
    /\ progress' = IF OnlyRequirement(files') THEN "start" ELSE progress
    /\ RenderVarsUnchanged
    /\ ConcVarsUnchanged

\* A human operator deletes an artifact between stage invocations.
OperatorDelete(p) ==
    /\ files[p].exists
    /\ files' = [files EXCEPT ![p] = Absent]
    /\ last' = NoInvocation
    /\ progress' = IF OnlyRequirement(files') THEN "start" ELSE "off"
    /\ RenderVarsUnchanged
    /\ ConcVarsUnchanged

NoRenderRun ==
    /\ template = [messages |-> <<>>]
    /\ kwargs = <<>>
    /\ rendered = <<>>
    /\ submitted = <<>>
    /\ phase = "none"

Stages == {"architect", "data_generator", "builder"}

NoConcRun ==
    /\ pc = [s \in Stages |-> "none"]
    /\ loc = [s \in Stages |-> <<>>]

\* After construction the workspace holds nothing, or the requirement the
\* agent collected.
Init ==
    /\ \E r \in {Absent} \cup {Present(t) : t \in Texts} :
          files = [EmptyWorkspace EXCEPT ![RequirementPath] = r]
    /\ last = NoInvocation
    /\ progress = IF OnlyRequirement(files) THEN "start" ELSE "off"
    /\ NoRenderRun
    /\ NoConcRun

Next ==
    \/ PromptArchitectFile
    \/ \E num \in Nums : DataGeneratorFile(num, DefaultNotion)
    \/ PromptBuilderFile
    \/ \E p \in Artifacts, c \in Texts : OperatorWrite(p, c)
    \/ \E p \in Artifacts : OperatorDelete(p)

Spec == Init /\ [][Next]_vars

----------------------------------------------------------------------------
(* Properties of the file-mediated stages (specification Spec)             *)

\* The upstream artifacts a stage reads and the artifact it writes.
Upstream(stage) ==
    CASE stage = "architect" -> {RequirementPath}
      [] stage = "data_generator" -> {AnalysisPath}
      [] stage = "builder" -> {AnalysisPath, TestDataPath}

Downstream(stage) ==
    CASE stage = "architect" -> AnalysisPath
      [] stage = "data_generator" -> TestDataPath
      [] stage = "builder" -> FinalPromptPath

UpstreamPresent(stage, fs) == \A p \in Upstream(stage) : fs[p].exists

\* C1: a stage invoked while one of its upstream artifacts is absent returns
\* an error status without raising, calls the model zero times and leaves
\* every artifact of the workspace as it was.
C1_MissingArtifactIsReported ==
    \A st \in Stages :
        (last.stage = st /\ ~UpstreamPresent(st, last.pre))
            => /\ last.returned.kind = "error"
               /\ ~last.raised
               /\ last.calls = 0
               /\ last.sent = <<>>
               /\ files = last.pre

C1_Witness ==
    /\ last.stage = "builder"
    /\ last.pre[AnalysisPath].exists
    /\ ~last.pre[TestDataPath].exists
    /\ last.pre[FinalPromptPath].exists
    /\ last.returned = Status("error", TestDataPath, 0)

\* C2: a stage reports the missing-artifact error only when an upstream
\* artifact is absent; when all of them exist, whatever they hold, it calls
\* the model and, when the model answers, writes the answer to its
\* downstream artifact and returns a success status.
C2_ErrorOnlyWhenAbsent ==
    \A st \in Stages :
        (last.stage = st /\ UpstreamPresent(st, last.pre))
            => /\ last.returned.kind # "error"
               /\ last.calls = 1
               /\ ~last.raised => /\ last.returned.kind = "ok"
                                  /\ files[Downstream(st)] = Present(last.response)

\* Some submitted message contains the text c.
SentContains(c) ==
    \E i \in 1..Len(last.sent) : Contains(last.sent[i].content, c)

\* C3: after architect, data-generator and builder ran in that order from a
\* workspace holding only requirement.txt, all three produced artifacts are
\* present and the builder's submitted messages contain what analysis.json
\* and test_data.json held when the builder read them.
C3_InOrderRunProducesAll ==
    (progress = "builder" /\ last.stage = "builder")
        => /\ files[AnalysisPath].exists
           /\ files[TestDataPath].exists
           /\ files[FinalPromptPath].exists
           /\ SentContains(last.pre[AnalysisPath].content)
           /\ SentContains(last.pre[TestDataPath].content)

\* C4: when a stage whose upstream artifacts are present returns, its
\* downstream artifact holds exactly the text the model returned on this
\* run, whatever it held before.
C4_RerunReplacesArtifact ==
    \A st \in Stages :
        (last.stage = st /\ UpstreamPresent(st, last.pre) /\ ~last.raised)
            => files[Downstream(st)] = Present(last.response)

\* C7: a stage changes no artifact but its own downstream one; in
\* particular requirement.txt and the artifacts a stage reads are as before.
C7_StageWritesOnlyItsOutput ==
    \A st \in Stages :
        last.stage = st
            => /\ \A p \in Artifacts \ {Downstream(st)} : files[p] = last.pre[p]
               /\ files[RequirementPath] = last.pre[RequirementPath]
               /\ \A p \in Upstream(st) : files[p] = last.pre[p]

C7_Witness ==
    /\ last.stage = "data_generator"
    /\ last.returned.kind = "ok"
    /\ files[TestDataPath] # last.pre[TestDataPath]
    /\ last.pre[FinalPromptPath].exists

\* C8: when the model call fails the stage has called the model exactly
\* once, returns no status and has written nothing; no invocation calls the
\* model more than once.
C8_ModelFailurePropagates ==
    /\ last.calls <= 1
    /\ last.raised => /\ last.calls = 1
                      /\ last.returned = NoStatus
                      /\ files = last.pre

C8_Witness ==
    /\ last.raised
    /\ last.stage = "data_generator"
    /\ last.pre[TestDataPath] = Present(TxtPlain)
    /\ files[TestDataPath] = Present(TxtPlain)

----------------------------------------------------------------------------
(* Rendering and invoking on their own (specification SpecRender): the     *)
(* template and the keyword arguments are drawn from bounded sets.         *)

MaxPieces == 2
MaxValPieces == 1
MaxMsgs == 2

SeqsUpTo(S, n) == UNION {[1..k -> S] : k \in 0..n}

RECURSIVE Join(_)
Join(ps) == IF ps = <<>> THEN <<>> ELSE Head(ps) \o Join(Tail(ps))

PieceTexts(pieces, n) == {Join(ps) : ps \in SeqsUpTo(pieces, n)}

KeyA == <<"a">>
KeyB == <<"b">>
KeyNames == {KeyA, KeyB}

TemplatePieces ==
    {Placeholder(KeyA), Placeholder(KeyB), <<"x">>, <<"{", "{">>, <<"}", "}">>}

ValuePieces == {<<"x">>, <<"a">>, Placeholder(KeyB)}

Values == {StrVal(t) : t \in PieceTexts(ValuePieces, MaxValPieces)} \cup {IntVal(12)}

\* Keyword arguments: each key at most once, in any call order.
KwargsSet ==
    {kw \in SeqsUpTo({Kw(k, v) : k \in KeyNames, v \in Values}, Cardinality(KeyNames)) :
        \A i, j \in 1..Len(kw) : i # j => kw[i].key # kw[j].key}

Roles == {"system", "user", "assistant", "tool"}

ShortContents == {<<"x">>, Placeholder(KeyA)}

\* One user message with a rich content and any keyword arguments, or
\* several messages of any roles with a simple content and simple arguments.
RenderInputs ==
    {[t |-> [messages |-> <<Msg("user", c)>>], kw |-> kw] :
        c \in PieceTexts(TemplatePieces, MaxPieces), kw \in KwargsSet}
    \cup
    {[t |-> [messages |-> ms], kw |-> kw] :
        ms \in SeqsUpTo({Msg(r, c) : r \in Roles, c \in ShortContents}, MaxMsgs),
        kw \in {<<>>, <<Kw(KeyA, StrVal(<<"x">>))>>}}

PipelineVarsUnchanged == UNCHANGED <<files, last, progress>>

InitRender ==
    /\ \E in \in RenderInputs : template = in.t /\ kwargs = in.kw
    /\ rendered = <<>>
    /\ submitted = <<>>
    /\ phase = "input"
    /\ files = EmptyWorkspace
    /\ last = NoInvocation
    /\ progress = "off"
    /\ NoConcRun

\* _render_messages as it would be if the loop stored the substituted
\* content back into the template's message.
RenderInPlace ==
    /\ phase \in {"input", "rendered"}
    /\ rendered' = RenderMessages(template, kwargs)
    /\ template' = [messages |-> rendered']
    /\ phase' = IF phase = "input" THEN "rendered" ELSE "rerendered"
    /\ UNCHANGED <<kwargs, submitted>>
    /\ PipelineVarsUnchanged
    /\ ConcVarsUnchanged

\* _render_messages(template, **kwargs), called once or a second time with
\* the same template object and the same arguments
Render ==
    /\ phase \in {"input", "rendered"}
    /\ rendered' = RenderMessages(template, kwargs)
    /\ phase' = IF phase = "input" THEN "rendered" ELSE "rerendered"
    /\ UNCHANGED <<template, kwargs, submitted>>
    /\ PipelineVarsUnchanged
    /\ ConcVarsUnchanged

\* _call_llm(messages): convert, then model.invoke answers or raises
CallLLM ==
    /\ phase \in {"rendered", "rerendered"}
    /\ submitted' = LcMessages(rendered)
    /\ \E out \in ModelOutcomes : phase' = IF out.raised THEN "raised" ELSE "returned"
    /\ UNCHANGED <<template, kwargs, rendered>>
    /\ PipelineVarsUnchanged
    /\ ConcVarsUnchanged

NextRender == Render \/ CallLLM

SpecRender == InitRender /\ [][NextRender]_vars

----------------------------------------------------------------------------
(* Properties of rendering and invoking (specification SpecRender)         *)

Submitted == phase \in {"returned", "raised"}

\* The rendered messages whose role the model client knows.
Known(messages) ==
    SelectSeq(messages, LAMBDA m : m.role \in {"system", "user", "assistant"})

\* C5: every rendered assistant message reaches the model as a
\* HumanMessage whose content is a non-empty prefix followed by the original
\* content, and no submitted message is an AIMessage.
C5_AssistantSentAsUser ==
    Submitted =>
        LET known == Known(rendered)
        IN  /\ Len(submitted) = Len(known)
            /\ \A i \in 1..Len(submitted) : submitted[i].type # "AIMessage"
            /\ \A i \in 1..Len(known) :
                  known[i].role = "assistant" =>
                      /\ submitted[i].type = "HumanMessage"
                      /\ Len(submitted[i].content) > Len(known[i].content)
                      /\ SubSeq(submitted[i].content,
                                Len(submitted[i].content) - Len(known[i].content) + 1,
                                Len(submitted[i].content)) = known[i].content
                      /\ StartsWith(submitted[i].content, AssistantPrefix)

C5_Witness ==
    /\ phase = "returned"
    /\ Len(rendered) = 2
    /\ rendered[1].role = "tool"
    /\ rendered[2].role = "assistant"
    /\ Len(submitted) = 1

KeysOf(kw) == {kw[i].key : i \in 1..Len(kw)}

\* C6: a placeholder of the template whose name is not among the supplied
\* keys is still a substring of the rendered message.
C6_AbsentPlaceholderSurvives ==
    phase # "input" =>
        \A n \in KeyNames \ KeysOf(kwargs) :
            \A i \in 1..Len(template.messages) :
                Contains(template.messages[i].content, Placeholder(n))
                    => Contains(rendered[i].content, Placeholder(n))

C6_Witness ==
    /\ phase = "rendered"
    /\ Len(kwargs) = 1
    /\ Len(template.messages) = 1
    /\ kwargs[1].key = KeyA
    /\ template.messages[1].content = Placeholder(KeyA) \o Placeholder(KeyB)
    /\ kwargs[1].value = StrVal(Placeholder(KeyB))
    /\ rendered[1].content = Placeholder(KeyB) \o Placeholder(KeyB)

\* The orders in which the same keyword arguments can be supplied.
CallOrders(kw) ==
    {[i \in 1..Len(kw) |-> kw[f[i]]] :
        f \in {g \in [1..Len(kw) -> 1..Len(kw)] :
                  \A i, j \in 1..Len(kw) : i # j => g[i] # g[j]}}

\* C10 as stated: whatever the template and the values, every order of the
\* keyword arguments renders the same messages.
C10_RenderIsConfluent ==
    phase # "input" =>
        \A kw \in CallOrders(kwargs) : RenderMessages(template, kw) = rendered

BraceFree(s) == \A i \in 1..Len(s) : s[i] \notin {"{", "}"}

\* Every brace of the text belongs to a placeholder {{name}} whose name has
\* no brace.
RECURSIVE BracesArePlaceholders(_)
BracesArePlaceholders(s) ==
    IF s = <<>> THEN TRUE
    ELSE IF Head(s) \notin {"{", "}"} THEN BracesArePlaceholders(Tail(s))
    ELSE /\ Len(s) >= 4
         /\ s[1] = "{"
         /\ s[2] = "{"
         /\ \E e \in 3..(Len(s) - 1) :
               /\ BraceFree(SubSeq(s, 3, e - 1))
               /\ s[e] = "}"
               /\ s[e + 1] = "}"
               /\ BracesArePlaceholders(SubSeq(s, e + 2, Len(s)))

\* C10 as amended: when every brace of the template belongs to a
\* placeholder and no supplied value contains a brace, every order of the
\* keyword arguments renders the same messages.
C10_ConfluentWithoutBraces ==
    (/\ phase # "input"
     /\ \A i \in 1..Len(template.messages) :
           BracesArePlaceholders(template.messages[i].content)
     /\ \A i \in 1..Len(kwargs) : BraceFree(Str(kwargs[i].value)))
        => \A kw \in CallOrders(kwargs) : RenderMessages(template, kw) = rendered

C10_Witness ==
    /\ phase = "rendered"
    /\ Len(kwargs) = 2
    /\ Len(template.messages) = 1
    /\ template.messages[1].content = Placeholder(KeyB) \o Placeholder(KeyA)
    /\ kwargs[1] = Kw(KeyA, StrVal(<<"a">>))
    /\ kwargs[2] = Kw(KeyB, IntVal(12))
    /\ rendered[1].content = <<"1", "2", "a">>

----------------------------------------------------------------------------
(* Stages run concurrently against one workspace (specification SpecConc): *)
(* each handler is a sequence of steps, and _write_file is the open that   *)
(* truncates, the writes that fill the file, and the close.                *)

MaxRuns == 1

\* What the model answers in these runs.
ConcResponses == {TxtPlain, TxtEmpty}

LocInit ==
    [runs |-> 0, in1 |-> <<>>, in2 |-> <<>>, torn |-> FALSE, sent |-> <<>>,
     response |-> <<>>, written |-> 0, returned |-> NoStatus, raised |-> FALSE]

StageTemplate(s) ==
    CASE s = "architect" -> ArchitectTemplate
      [] s = "data_generator" -> DataGeneratorTemplate
      [] s = "builder" -> BuilderTemplate

StageKwargs(s, in1, in2) ==
    CASE s = "architect" -> <<Kw(KeyRequirement, StrVal(in1))>>
      [] s = "data_generator" ->
            << Kw(KeyNum, IntVal(DefaultNum)),
               Kw(KeyAnalysis, StrVal(in1)),
               Kw(KeyNotion, StrVal(DefaultNotion)),
               Kw(KeyRequireOutput, StrVal(<<"t", "r", "u", "e">>)) >>
      [] s = "builder" -> << Kw(KeyAnalysis, StrVal(in1)), Kw(KeyTestData, StrVal(in2)) >>

FirstInput(s) ==
    CASE s = "architect" -> RequirementPath
      [] s = "data_generator" -> AnalysisPath
      [] s = "builder" -> AnalysisPath

OkStatus(s) ==
    Status("ok", Downstream(s), IF s = "data_generator" THEN DefaultNum ELSE 0)

\* Some stage has the file open for writing and has not written all of it.
MidWrite(path) ==
    \E w \in Stages :
        /\ Downstream(w) = path
        /\ pc[w] = "write"
        /\ loc[w].written < Len(loc[w].response)

InitConc ==
    /\ \E a, t \in {Absent, Present(TxtPlain)} :
          files = [EmptyWorkspace EXCEPT ![RequirementPath] = Present(TxtPlain),
                                         ![AnalysisPath] = a,
                                         ![TestDataPath] = t]
    /\ pc = [s \in Stages |-> "idle"]
    /\ loc = [s \in Stages |-> LocInit]
    /\ last = NoInvocation
    /\ progress = "off"
    /\ NoRenderRun

ConcFrame == UNCHANGED <<last, progress>> /\ RenderVarsUnchanged

\* The agent calls the stage's tool.
Invoke(s) ==
    /\ pc[s] = "idle"
    /\ loc[s].runs < MaxRuns
    /\ pc' = [pc EXCEPT ![s] = "read"]
    /\ loc' = [loc EXCEPT ![s] = [LocInit EXCEPT !.runs = loc[s].runs + 1]]
    /\ UNCHANGED files
    /\ ConcFrame

\* _read_file of the stage's first input and the test of its prefix.  No
\* step of these runs removes a file, so exists() and open() agree.
ReadInput(s) ==
    /\ pc[s] = "read"
    /\ LET text == ReadFile(files, FirstInput(s))
       IN  /\ loc' = [loc EXCEPT ![s].in1 = text,
                                 ![s].torn = MidWrite(FirstInput(s)),
                                 ![s].returned =
                                     IF StartsWith(text, ErrorPrefix)
                                     THEN Status("error", FirstInput(s), 0)
                                     ELSE NoStatus]
           /\ pc' = [pc EXCEPT ![s] =
                        IF StartsWith(text, ErrorPrefix) THEN "idle"
                        ELSE IF s = "builder" THEN "read2" ELSE "generate"]
    /\ UNCHANGED files
    /\ ConcFrame

\* The builder's second _read_file, of test_data.json.
ReadSecondInput(s) ==
    /\ pc[s] = "read2"
    /\ LET text == ReadFile(files, TestDataPath)
       IN  /\ loc' = [loc EXCEPT ![s].in2 = text,
                                 ![s].torn = loc[s].torn \/ MidWrite(TestDataPath),
                                 ![s].returned =
                                     IF StartsWith(text, ErrorPrefix)
                                     THEN Status("error", TestDataPath, 0)
                                     ELSE NoStatus]
           /\ pc' = [pc EXCEPT ![s] =
                        IF StartsWith(text, ErrorPrefix) THEN "idle" ELSE "generate"]
    /\ UNCHANGED files
    /\ ConcFrame

\* _render_messages and _call_llm: the model answers or raises.
CallModel(s) ==
    /\ pc[s] = "generate"
    /\ \E out \in {[raised |-> FALSE, content |-> t] : t \in ConcResponses}
                     \cup {[raised |-> TRUE, content |-> <<>>]} :
          /\ loc' = [loc EXCEPT
                        ![s].sent = LcMessages(RenderMessages(StageTemplate(s),
                                        StageKwargs(s, loc[s].in1, loc[s].in2))),
                        ![s].response = out.content,
                        ![s].raised = out.raised]
          /\ pc' = [pc EXCEPT ![s] = IF out.raised THEN "idle" ELSE "open"]
    /\ UNCHANGED files
    /\ ConcFrame

\* _write_file as it would be if it wrote a temporary file to rename later:
\* the artifact keeps its content while it is being written.
OpenOutputAside(s) ==
    /\ pc[s] = "open"
    /\ pc' = [pc EXCEPT ![s] = "write"]
    /\ loc' = [loc EXCEPT ![s].written = 0]
    /\ UNCHANGED files
    /\ ConcFrame

\* _write_file: open(path, "w") creates the file or truncates it.
OpenOutput(s) ==
    /\ pc[s] = "open"
    /\ files' = [files EXCEPT ![Downstream(s)] = Present(<<>>)]
    /\ pc' = [pc EXCEPT ![s] = "write"]
    /\ loc' = [loc EXCEPT ![s].written = 0]
    /\ ConcFrame

\* _write_file: f.write's text reaches the file in one or more pieces, each
\* at the writer's own offset.
WriteChunk(s) ==
    /\ pc[s] = "write"
    /\ loc[s].written < Len(loc[s].response)
    /\ \E n \in 1..(Len(loc[s].response) - loc[s].written) :
          LET old == files[Downstream(s)].content
              upto == loc[s].written + n
          IN  /\ files' = [files EXCEPT ![Downstream(s)] =
                              Present(SubSeq(old, 1, loc[s].written)
                                      \o SubSeq(loc[s].response, loc[s].written + 1, upto)
                                      \o SubSeq(old, upto + 1, Len(old)))]
              /\ loc' = [loc EXCEPT ![s].written = upto]
    /\ UNCHANGED pc
    /\ ConcFrame

\* _write_file returns once all is written; the stage returns its status.
CloseAndReturn(s) ==
    /\ pc[s] = "write"
    /\ loc[s].written = Len(loc[s].response)
    /\ pc' = [pc EXCEPT ![s] = "idle"]
    /\ loc' = [loc EXCEPT ![s].returned = OkStatus(s)]
    /\ UNCHANGED files
    /\ ConcFrame

NextConc ==
    \E s \in Stages :
        \/ Invoke(s)
        \/ ReadInput(s)
        \/ ReadSecondInput(s)
        \/ CallModel(s)
        \/ OpenOutput(s)
        \/ WriteChunk(s)
        \/ CloseAndReturn(s)

SpecConc == InitConc /\ [][NextConc]_vars

\* C9: nothing keeps a reader from an artifact that is being written.  While
\* a stage has its output open, the artifact holds only what this write has
\* put there so far; and a stage that read an artifact in that window, unless
\* the text it got starts with "Error:", does not report a missing artifact,
\* and once it returns success it has sent that text to the model and its
\* own downstream artifact holds the model's answer.
C9_ReaderSeesPartialWrite ==
    \A s \in Stages :
        /\ pc[s] = "write"
              => files[Downstream(s)] = Present(SubSeq(loc[s].response, 1, loc[s].written))
        /\ (/\ loc[s].torn
            /\ ~StartsWith(loc[s].in1, ErrorPrefix)
            /\ ~StartsWith(loc[s].in2, ErrorPrefix))
              => /\ loc[s].returned.kind # "error"
                 /\ loc[s].returned.kind = "ok"
                       => /\ \E i \in 1..Len(loc[s].sent) :
                                 Contains(loc[s].sent[i].content, loc[s].in1)
                          /\ files[Downstream(s)].exists

\* The data generator read "a" out of an analysis.json the architect was
\* still filling with "ab", and wrote test_data.json from the model's answer.
C9_Witness ==
    /\ pc["architect"] = "write"
    /\ loc["architect"].response = TxtPlain
    /\ loc["data_generator"].torn
    /\ loc["data_generator"].in1 = <<"a">>
    /\ loc["data_generator"].returned.kind = "ok"
    /\ files[TestDataPath] = Present(loc["data_generator"].response)

\* C11: rendering leaves the template and the arguments as they were, and a
\* second rendering of the same template with the same arguments yields the
\* messages of the first: same length, same roles in order, same contents.
C11_RenderIsDeterministic ==
    [][(phase' \in {"rendered", "rerendered"} /\ phase' # phase)
          => /\ template' = template
             /\ kwargs' = kwargs
             /\ Len(rendered') = Len(template.messages)
             /\ \A i \in 1..Len(rendered') : rendered'[i].role = template.messages[i].role
             /\ phase = "rendered" => rendered' = rendered]_vars

\* A second rendering happened of a template whose first rendering left a
\* placeholder of a supplied key in the output.
C11_Witness ==
    /\ phase = "rerendered"
    /\ Len(kwargs) = 2
    /\ Len(template.messages) = 1
    /\ template.messages[1].content = Placeholder(KeyA)
    /\ kwargs[1] = Kw(KeyB, StrVal(<<"x">>))
    /\ kwargs[2] = Kw(KeyA, StrVal(Placeholder(KeyB)))
    /\ rendered[1].content = Placeholder(KeyB)

----------------------------------------------------------------------------
(* The stages alone, with no edit or deletion from outside (specification  *)
(* SpecStages), from a workspace holding at most requirement.txt.          *)

NextStages ==
    \/ PromptArchitectFile
    \/ \E num \in Nums : DataGeneratorFile(num, DefaultNotion)
    \/ PromptBuilderFile

SpecStages == Init /\ [][NextStages]_vars

\* C12: whatever stages ran, in whatever order, no invocation removed an
\* artifact, and the artifacts present follow the pipeline: analysis.json
\* only with requirement.txt, test_data.json only with analysis.json,
\* final_prompt.json only with analysis.json and test_data.json.
C12_ArtifactsFollowPipeline ==
    /\ \A p \in Artifacts : last.pre[p].exists => files[p].exists
    /\ files[AnalysisPath].exists => files[RequirementPath].exists
    /\ files[TestDataPath].exists => files[AnalysisPath].exists
    /\ files[FinalPromptPath].exists
          => files[AnalysisPath].exists /\ files[TestDataPath].exists

\* The builder created final_prompt.json, completing the workspace.
C12_Witness ==
    /\ last.stage = "builder"
    /\ last.returned.kind = "ok"
    /\ ~last.pre[FinalPromptPath].exists
    /\ \A p \in Artifacts : files[p].exists

----------------------------------------------------------------------------
(* The model invoker's role mapping (specification SpecRender)             *)

\* The positions of the rendered messages whose role is system, user or
\* assistant, in template order.
RECURSIVE KnownPositions(_, _)
KnownPositions(messages, i) ==
    IF i > Len(messages) THEN <<>>
    ELSE (IF messages[i].role \in {"system", "user", "assistant"} THEN <<i>> ELSE <<>>)
         \o KnownPositions(messages, i + 1)

\* C13: the submitted messages are, in template order, one per rendered
\* message of role system, user or assistant, a system or user message with
\* its content unchanged; a message of any other role is left out and the
\* call is made all the same, so that fewer messages are submitted than were
\* rendered exactly when such a role occurs.
C13_UnknownRoleOmitted ==
    Submitted =>
        LET pos == KnownPositions(rendered, 1)
        IN  /\ Len(submitted) = Len(pos)
            /\ \A k \in 1..Len(pos) :
                  /\ rendered[pos[k]].role = "system"
                        => submitted[k] = SystemMessage(rendered[pos[k]].content)
                  /\ rendered[pos[k]].role = "user"
                        => submitted[k] = HumanMessage(rendered[pos[k]].content)
                  /\ rendered[pos[k]].role = "assistant"
                        => submitted[k].type = "HumanMessage"
            /\ Len(submitted) < Len(rendered)
                  <=> \E i \in 1..Len(rendered) :
                          rendered[i].role \notin {"system", "user", "assistant"}

\* A message of role tool preceded a system message; the model was called
\* with the system message alone.
C13_Witness ==
    /\ phase = "returned"
    /\ Len(rendered) = 2
    /\ rendered[1].role = "tool"
    /\ rendered[2].role = "system"
    /\ submitted = <<SystemMessage(rendered[2].content)>>

====
